---- MODULE Spec2Model ----
(***************************************************************************)
(* Window watchdog (WWDG) driver of stm32wlxx-hal, hal/src/watchdog.rs.    *)
(*                                                                         *)
(* The state is the driver object (the cached reload), the WWDG register   *)
(* fields the driver reads and writes (CR.T, CR.WDGA, CFR.W, CFR.WDGTB,     *)
(* CFR.EWI), the bus clock PCLK1 that pclk1_hz() reports, and the position *)
(* of the single thread of control inside start().  The autonomous         *)
(* hardware countdown and the reset it produces are outside the model.     *)
(***************************************************************************)
EXTENDS Integers, Sequences, FiniteSets

VARIABLES
    reload,        \* WindowWatchdog.reload : u8
    psc,           \* the local psc of setup() at loop exit
    cr_t,          \* WWDG_CR.T, 7 bits
    cr_wdga,       \* WWDG_CR.WDGA
    cfr_w,         \* WWDG_CFR.W, 7 bits
    cfr_wdgtb,     \* WWDG_CFR.WDGTB
    cfr_ewi,       \* WWDG_CFR.EWI
    pclk,          \* what pclk1_hz(rcc) reports, Hz
    debug_build,   \* whether debug_assert! is compiled in
    pc,            \* position of the thread of control
    fault,         \* "none" or the panic that ended the program
    call,          \* the most recent call: operation, clock, argument, result
    startUs,       \* the period passed to the most recent start()
    startHz,       \* the clock the most recent start() read
    trace          \* effects of the current (or most recent) start(), in order

vars == <<reload, psc, cr_t, cr_wdga, cfr_w, cfr_wdgtb, cfr_ewi, pclk,
          debug_build, pc, fault, call, startUs, startHz, trace>>

(***************************************************************************)
(* Program constants.                                                      *)
(***************************************************************************)
WWDG_DIV == 4096
WWDG_MAX_PRESCALER == 128
WWDG_MAX_RELOAD == 63
PCLK1_FREQ == 1000000

(***************************************************************************)
(* Bounds of the inputs.                                                   *)
(***************************************************************************)
MaxMantissa == 3
MaxExp == 12

RECURSIVE Pow(_, _)
Pow(b, e) == IF e = 0 THEN 1 ELSE b * Pow(b, e - 1)

\* Requested durations in microseconds: m * 4^e, and the scenario values
\* (the test's 5120 us, 64 cycles at 1 MHz, the longest representable
\* duration at 1 MHz, and 40 s).
TargetUs ==
    {m * Pow(4, e) : m \in 0..MaxMantissa, e \in 0..MaxExp}
      \cup {5120, 262272, 33030144, 40000000}

WindowUs == {0, 1, 84, 85, 4097, 4098, 5120, 8196, 262272, 1049088}

\* Clock readings: zero, below WWDG_DIV, and whole-MHz bus clocks.
Freqs == {0, 4095, PCLK1_FREQ, 16 * PCLK1_FREQ, 48 * PCLK1_FREQ}

(***************************************************************************)
(* Pure functions.                                                         *)
(***************************************************************************)
RECURSIVE BitAnd(_, _)
BitAnd(a, b) ==
    IF a = 0 \/ b = 0 THEN 0
    ELSE (a % 2) * (b % 2) + 2 * BitAnd(a \div 2, b \div 2)

\* `x as u8`
AsU8(x) == x % 256

\* (pclk / WWDG_DIV) / div, with div = 1 << wdgtb
ClockDivided(hz, wdgtb) == (hz \div WWDG_DIV) \div Pow(2, wdgtb)

\* 1_000_000 / ((pclk / WWDG_DIV) / div); the division panics on zero
ClockPeriodPanics(hz, wdgtb) == ClockDivided(hz, wdgtb) = 0

clock_period_us(hz, wdgtb) == 1000000 \div ClockDivided(hz, wdgtb)

\* let mut reload = target_us / us_per_cycle;
SetupCeilReload(target_us, us_per_cycle) ==
    (target_us + us_per_cycle - 1) \div us_per_cycle

SetupInitialReload(target_us, us_per_cycle) == target_us \div us_per_cycle

\* The loop of setup(): <<reload, psc>> at loop exit.
RECURSIVE SetupLoop(_, _)
SetupLoop(r, p) ==
    IF p >= AsU8(WWDG_MAX_PRESCALER)
    THEN <<IF r > WWDG_MAX_RELOAD THEN WWDG_MAX_RELOAD ELSE r, p>>
    ELSE IF r <= WWDG_MAX_RELOAD
         THEN <<r, p>>
         ELSE SetupLoop(r \div 2, p + 1)

\* w.t().bits(0x40 & self.reload)
FeedBits(r) == BitAnd(64, r) % 128

\* w.w().bits(0x40 & cycles as u8)
WindowBits(cycles) == BitAnd(64, AsU8(cycles)) % 128

\* self.reload as u32 * us_per_cycle
IntervalValue(r, us_per_cycle) == r * us_per_cycle

\* WDGA is set by software and cleared only by a hardware reset: a write of
\* 0 to the bit leaves it as it is.
WdgaPlainWrite(cur, written) == written

WdgaAfterWrite(cur, written) == cur \/ written

NoCall == [op |-> "new", hz |-> 0, us |-> 0, out |-> 0]

Panic(what) ==
    /\ pc' = "panicked"
    /\ fault' = what

(***************************************************************************)
(* Initial state: WindowWatchdog::new on a peripheral at its reset values. *)
(***************************************************************************)
Init ==
    /\ reload = 0
    /\ psc = 0
    /\ cr_t = 127
    /\ cr_wdga = FALSE
    /\ cfr_w = 127
    /\ cfr_wdgtb = 0
    /\ cfr_ewi = FALSE
    /\ pclk = PCLK1_FREQ
    /\ debug_build \in BOOLEAN
    /\ pc = "idle"
    /\ fault = "none"
    /\ call = NoCall
    /\ startUs = 0
    /\ startHz = 0
    /\ trace = <<>>

(***************************************************************************)
(* start(period), first part: setup() up to `self.reload = reload as u8`.  *)
(***************************************************************************)
StartSetup ==
    /\ pc = "idle"
    /\ \E target_us \in TargetUs :
         /\ call' = [op |-> "start", hz |-> pclk, us |-> target_us, out |-> 0]
         /\ IF ClockPeriodPanics(pclk, cfr_wdgtb)
               \/ clock_period_us(pclk, cfr_wdgtb) = 0
            THEN /\ Panic("division by zero")
                 /\ UNCHANGED <<reload, psc, startUs, startHz, trace>>
            ELSE LET q == SetupLoop(SetupInitialReload(target_us,
                                      clock_period_us(pclk, cfr_wdgtb)), 0)
                 IN /\ reload' = AsU8(q[1])
                    /\ psc' = q[2]
                    /\ startUs' = target_us
                    /\ startHz' = pclk
                    /\ trace' = <<"reload">>
                    /\ pc' = "start_feed"
                    /\ UNCHANGED fault
    /\ UNCHANGED <<cr_t, cr_wdga, cfr_w, cfr_wdgtb, cfr_ewi, pclk, debug_build>>

\* start(period), second part: the self.feed() that ends setup().
StartFeedEnableFirst ==
    /\ pc = "start_feed"
    /\ cr_wdga' = TRUE
    /\ trace' = Append(trace, "cr.wdga")
    /\ pc' = "start_enable"
    /\ UNCHANGED <<reload, psc, cr_t, cfr_w, cfr_wdgtb, cfr_ewi, pclk,
                   debug_build, fault, call, startUs, startHz>>

StartFeed ==
    /\ pc = "start_feed"
    /\ cr_t' = FeedBits(reload)
    /\ cr_wdga' = WdgaAfterWrite(cr_wdga, FALSE)
    /\ trace' = Append(trace, "cr.t")
    /\ pc' = "start_enable"
    /\ UNCHANGED <<reload, psc, cfr_w, cfr_wdgtb, cfr_ewi, pclk,
                   debug_build, fault, call, startUs, startHz>>

\* start(period), last part: self.wwdg.cr.modify(|_, w| w.wdga().enabled()).
StartEnable ==
    /\ pc = "start_enable"
    /\ cr_wdga' = WdgaAfterWrite(cr_wdga, TRUE)
    /\ trace' = Append(trace, "cr.wdga")
    /\ pc' = "idle"
    /\ UNCHANGED <<reload, psc, cr_t, cfr_w, cfr_wdgtb, cfr_ewi, pclk,
                   debug_build, fault, call, startUs, startHz>>

(***************************************************************************)
(* feed(): cr.write sets T and writes the other bits of CR as 0.           *)
(***************************************************************************)
Feed ==
    /\ pc = "idle"
    /\ cr_t' = FeedBits(reload)
    /\ cr_wdga' = WdgaAfterWrite(cr_wdga, FALSE)
    /\ call' = [op |-> "feed", hz |-> 0, us |-> 0, out |-> 0]
    /\ UNCHANGED <<reload, psc, cfr_w, cfr_wdgtb, cfr_ewi, pclk, debug_build,
                   pc, fault, startUs, startHz, trace>>

(***************************************************************************)
(* set_window_us(us, rcc)                                                  *)
(***************************************************************************)
SetWindowUs ==
    /\ pc = "idle"
    /\ \E us \in WindowUs :
         IF ClockPeriodPanics(pclk, cfr_wdgtb)
            \/ clock_period_us(pclk, cfr_wdgtb) = 0
         THEN /\ call' = [op |-> "set_window_us", hz |-> pclk, us |-> us,
                          out |-> 0]
              /\ Panic("division by zero")
              /\ UNCHANGED cfr_w
         ELSE LET cycles == us \div clock_period_us(pclk, cfr_wdgtb)
              IN /\ call' = [op |-> "set_window_us", hz |-> pclk, us |-> us,
                             out |-> cycles]
                 /\ IF debug_build /\ ~(cycles > 0)
                    THEN /\ Panic("debug_assert")
                         /\ UNCHANGED cfr_w
                    ELSE /\ cfr_w' = WindowBits(cycles)
                         /\ UNCHANGED <<pc, fault>>
    /\ UNCHANGED <<reload, psc, cr_t, cr_wdga, cfr_wdgtb, cfr_ewi, pclk,
                   debug_build, startUs, startHz, trace>>

(***************************************************************************)
(* interval_us(rcc)                                                        *)
(***************************************************************************)
IntervalUs ==
    /\ pc = "idle"
    /\ IF ClockPeriodPanics(pclk, cfr_wdgtb)
       THEN /\ call' = [op |-> "interval_us", hz |-> pclk, us |-> 0, out |-> 0]
            /\ Panic("division by zero")
       ELSE /\ call' = [op |-> "interval_us", hz |-> pclk, us |-> 0,
                        out |-> IntervalValue(reload,
                                   clock_period_us(pclk, cfr_wdgtb))]
            /\ UNCHANGED <<pc, fault>>
    /\ UNCHANGED <<reload, psc, cr_t, cr_wdga, cfr_w, cfr_wdgtb, cfr_ewi, pclk,
                   debug_build, startUs, startHz, trace>>

(***************************************************************************)
(* enable_ewi(enabled)                                                     *)
(***************************************************************************)
EnableEwi ==
    /\ pc = "idle"
    /\ \E enabled \in BOOLEAN :
         /\ cfr_ewi' = enabled
         /\ call' = [op |-> "enable_ewi", hz |-> 0, us |-> 0,
                     out |-> IF enabled THEN 1 ELSE 0]
    /\ UNCHANGED <<reload, psc, cr_t, cr_wdga, cfr_w, cfr_wdgtb, pclk,
                   debug_build, pc, fault, startUs, startHz, trace>>

(***************************************************************************)
(* The clock tree is reconfigured by other code between two calls: the     *)
(* next pclk1_hz(rcc) reports another frequency.                           *)
(***************************************************************************)
SetPclk ==
    /\ pc = "idle"
    /\ \E hz \in Freqs \ {pclk} : pclk' = hz
    /\ UNCHANGED <<reload, psc, cr_t, cr_wdga, cfr_w, cfr_wdgtb, cfr_ewi,
                   debug_build, pc, fault, call, startUs, startHz, trace>>

Next ==
    \/ StartSetup
    \/ StartFeed
    \/ StartEnable
    \/ Feed
    \/ SetWindowUs
    \/ IntervalUs
    \/ EnableEwi
    \/ SetPclk

Spec == Init /\ [][Next]_vars

TypeOK ==
    /\ reload \in 0..255
    /\ psc \in 0..AsU8(WWDG_MAX_PRESCALER)
    /\ cr_t \in 0..127
    /\ cr_wdga \in BOOLEAN
    /\ cfr_w \in 0..127
    /\ cfr_wdgtb \in 0..7
    /\ cfr_ewi \in BOOLEAN
    /\ pclk \in Freqs
    /\ pc \in {"idle", "start_feed", "start_enable", "panicked"}
    /\ fault \in {"none", "division by zero", "debug_assert"}

(***************************************************************************)
(* Quantities the properties are stated with.                              *)
(***************************************************************************)
\* The largest index WDGTB can select: the one whose ratio is the cap.
MaxPrescalerIndex == CHOOSE i \in 0..31 : Pow(2, i) = WWDG_MAX_PRESCALER

\* A clock reading the divisions of clock_period_us accept.
ValidClock(hz) == ~ClockPeriodPanics(hz, cfr_wdgtb)

\* max_reload * max_division / f in microseconds, for a whole-MHz clock f.
MaxDurationUs(hz) ==
    (WWDG_MAX_RELOAD * WWDG_DIV * WWDG_MAX_PRESCALER) \div (hz \div 1000000)

Min(a, b) == IF a < b THEN a ELSE b

\* start() has returned and was the last call.
StartReturned == call.op = "start" /\ pc = "idle" /\ fault = "none"

\* interval_us() has returned after a start(), under the clock start() read.
IntervalAfterStart ==
    /\ call.op = "interval_us"
    /\ fault = "none"
    /\ cr_wdga
    /\ call.hz = startHz

\* C1: after every feed(), the one inside start() included, the low 6 bits
\* of the counter field T equal the cached reload.
C1_FeedWritesReload ==
    (/\ fault = "none"
     /\ \/ call.op = "feed"
        \/ (call.op = "start" /\ pc \in {"start_enable", "idle"}))
    => cr_t % 64 = reload

\* C2: the quantization of start() yields a reload count <= 0x3F and a
\* prescaler index <= the largest index the wdgtb field can select.
C2_QuantizeWithinLimits ==
    /\ reload <= WWDG_MAX_RELOAD
    /\ psc <= MaxPrescalerIndex

\* C3: interval_us(f) after start(d), f unchanged, returns at most d.
C3_DecodeNotLonger ==
    IntervalAfterStart => call.out <= startUs

C3_Witness ==
    /\ IntervalAfterStart
    /\ call.out > 0
    /\ call.out < startUs
    /\ psc = 0

\* C4: for d in [1 cycle, max_reload * max_division / f], interval_us(f)
\* after start(d) returns more than d minus one counter cycle at the
\* prescaler the quantizer selected.
C4_DecodeWithinOneStep ==
    (/\ IntervalAfterStart
     /\ startUs >= clock_period_us(startHz, 0)
     /\ startUs <= MaxDurationUs(startHz))
    => call.out > startUs - clock_period_us(startHz, psc)

\* C5: for d larger than the longest duration representable at f, start(d)
\* ends with the maximum prescaler index and reload 0x3F, with no error.
C5_Saturation ==
    (/\ StartReturned
     /\ startUs > MaxDurationUs(startHz))
    => (psc = MaxPrescalerIndex /\ reload = WWDG_MAX_RELOAD)

\* C6: in start(), the cached reload is updated first, then the counter is
\* written by the initial feed, and only then is the enable bit set.
C6_StartOrder ==
    /\ \E n \in 0..3 : trace = SubSeq(<<"reload", "cr.t", "cr.wdga">>, 1, n)
    /\ (pc = "start_feed" => (trace = <<"reload">> /\ call.op = "start"))
    /\ (pc = "start_enable" => trace = <<"reload", "cr.t">>)

C6_Witness ==
    /\ StartReturned
    /\ trace = <<"reload", "cr.t", "cr.wdga">>
    /\ cr_wdga

\* C7: set_window_us(us), us at least one counter cycle, leaves in the low
\* 6 bits of W the cycle count us / us_per_cycle reduced to at most 0x3F.
C7_WindowWritesCycles ==
    (/\ call.op = "set_window_us"
     /\ fault = "none"
     /\ call.out >= 1)
    => cfr_w % 64 = Min(call.out, WWDG_MAX_RELOAD)

C9_NoFaultOnBadClock ==
    ~ValidClock(pclk) => fault = "none"

\* C10: whenever the watchdog is enabled, the value last written to T has
\* its top bit (bit 6) set.
C10_CounterActive ==
    cr_wdga => BitAnd(cr_t, 64) = 64

====
